---- MODULE Spec2Model ----
(***************************************************************************)
(* Model of split_pdf_by_candidate.py: the CandidatePDFSplitter pipeline   *)
(* (load, boundary extraction, segmentation and writing), the text-pattern *)
(* boundary strategy and the candidate-name normalizer.                    *)
(*                                                                         *)
(* Strings are sequences of one-character strings.  Page indexes are       *)
(* zero-based as in the code; positions in TLA+ sequences are one-based,   *)
(* so the loop variable i of split_pdf is kept one-based (code i + 1).     *)
(***************************************************************************)
EXTENDS Integers, Sequences, FiniteSets, TLC

VARIABLES
    pc,           \* position of the run
    mode,         \* "split" or "analyze" (args.analyze), "none" before parsing
    exit,         \* "running", "ok" (exit status 0) or "error" (non-zero)
    reader,       \* self.reader is set (TRUE) or None (FALSE)
    total,        \* len(self.reader.pages)
    toc_entries,  \* split_pdf's toc_entries: sequence of [name, page]
    i,            \* one-based index of the candidate processed next
    folders,      \* candidate folders below output_base_dir
    files,        \* candidate PDFs: canonical name -> [by, pages, complete]
    log,          \* records emitted through logger
    stages,       \* history: the stages of the pipeline that ran
    outcome,      \* history: per candidate, how its processing ended
    text,         \* text-strategy check: the matches present in the document
    scanned,      \* text-strategy check: pages scanned before an error
    label,        \* normalizer check: the raw label
    result,       \* normalizer check: parse_candidate_name(label)
    result2       \* normalizer check: parse_candidate_name(result)

vars == <<pc, mode, exit, reader, total, toc_entries, i, folders, files, log,
          stages, outcome, text, scanned, label, result, result2>>

pipelineVars == <<mode, exit, reader, total, toc_entries, i, folders, files,
                  log, stages, outcome>>
textVars == <<text, scanned>>
nameVars == <<label, result, result2>>

(***************************************************************************)
(* Bounds                                                                  *)
(***************************************************************************)
MaxPages == 3       \* pages of the document in the pipeline
MaxOutline == 2     \* outline items of the document
MaxMatches == 2     \* pattern matches in the text of the document
MaxPrinted == 4     \* largest printed page number in a match
TextMaxPages == 6   \* pages of the document in the text-strategy check
MaxLen == 4         \* length of a raw label in the normalizer check

SearchWindow == 5   \* "Search first 5 pages for TOC"

Min(a, b) == IF a < b THEN a ELSE b
Range(s) == {s[k] : k \in 1..Len(s)}
BSeq(S, n) == UNION {[1..k -> S] : k \in 0..n}

(***************************************************************************)
(* Python string operations used by the normalizer                         *)
(***************************************************************************)
IndexError == <<"IndexError">>   \* the exception value of a failed [0]

IsSpace(c) == c = " "

RECURSIVE LStrip(_)
LStrip(s) ==
    IF s # <<>> /\ IsSpace(Head(s)) THEN LStrip(Tail(s)) ELSE s

RECURSIVE RStrip(_)
RStrip(s) ==
    IF s # <<>> /\ IsSpace(s[Len(s)]) THEN RStrip(SubSeq(s, 1, Len(s) - 1))
    ELSE s

\* str.strip()
strip(s) == RStrip(LStrip(s))

FirstIndex(s, c) ==
    CHOOSE k \in 1..Len(s) : s[k] = c /\ \A j \in 1..(k - 1) : s[j] # c

\* str.split(sep): every occurrence of sep separates two parts
RECURSIVE split_sep(_, _)
split_sep(s, sep) ==
    IF sep \notin Range(s) THEN <<s>>
    ELSE LET k == FirstIndex(s, sep)
         IN  <<SubSeq(s, 1, k - 1)>> \o split_sep(SubSeq(s, k + 1, Len(s)), sep)

\* length of the leading run of non-whitespace characters
RECURSIVE TokenLen(_)
TokenLen(s) ==
    IF s = <<>> \/ IsSpace(Head(s)) THEN 0 ELSE 1 + TokenLen(Tail(s))

\* str.split(): the whitespace-delimited tokens, none of them empty
RECURSIVE split_ws(_)
split_ws(s) ==
    LET t == LStrip(s)
    IN  IF t = <<>> THEN <<>>
        ELSE LET n == TokenLen(t)
             IN  <<SubSeq(t, 1, n)>> \o split_ws(SubSeq(t, n + 1, Len(t)))

\* str.replace(c, r) for one-character c and r
replace(s, c, r) ==
    IF s = <<>> THEN <<>>
    ELSE [k \in 1..Len(s) |-> IF s[k] = c THEN r ELSE s[k]]

invalid_chars == <<"<", ">", ":", "\"", "/", "\\", "|", "?", "*">>

RECURSIVE ReplaceInvalid(_, _)
ReplaceInvalid(s, k) ==
    IF k > Len(invalid_chars) THEN s
    ELSE ReplaceInvalid(replace(s, invalid_chars[k], "_"), k + 1)

sanitize_filename(filename) == strip(ReplaceInvalid(filename, 1))

\* plausible slip: "len(parts) >= 1" in the "Firstname Lastname" branch
parse_candidate_name_ge1(name_str) ==
    LET s == strip(name_str)
    IN  IF "," \in Range(s)
        THEN LET parts == split_sep(s, ",")
                 lastname == strip(parts[1])
                 toks == split_ws(strip(parts[2]))
             IN  IF toks = <<>> THEN IndexError
                 ELSE sanitize_filename(lastname \o <<"_">> \o toks[1])
        ELSE LET parts == split_ws(s)
             IN  IF Len(parts) >= 1
                 THEN sanitize_filename(parts[Len(parts)] \o <<"_">> \o parts[1])
                 ELSE sanitize_filename(s)

\* plausible slip: the firstname taken from the last comma-separated part
parse_candidate_name_lastpart(name_str) ==
    LET s == strip(name_str)
    IN  IF "," \in Range(s)
        THEN LET parts == split_sep(s, ",")
                 lastname == strip(parts[1])
                 toks == split_ws(strip(parts[Len(parts)]))
             IN  IF toks = <<>> THEN IndexError
                 ELSE sanitize_filename(lastname \o <<"_">> \o toks[1])
        ELSE LET parts == split_ws(s)
             IN  IF Len(parts) >= 2
                 THEN sanitize_filename(parts[Len(parts)] \o <<"_">> \o parts[1])
                 ELSE sanitize_filename(s)

\* the result, or IndexError when parts[1].strip().split() is empty
parse_candidate_name(name_str) ==
    LET s == strip(name_str)
    IN  IF "," \in Range(s)
        THEN LET parts == split_sep(s, ",")
                 lastname == strip(parts[1])
                 toks == split_ws(strip(parts[2]))
             IN  IF toks = <<>> THEN IndexError
                 ELSE sanitize_filename(lastname \o <<"_">> \o toks[1])
        ELSE LET parts == split_ws(s)
             IN  IF Len(parts) >= 2
                 THEN sanitize_filename(parts[Len(parts)] \o <<"_">> \o parts[1])
                 ELSE sanitize_filename(s)

(***************************************************************************)
(* Normalizer check: a raw label is drawn, normalized, and normalized      *)
(* again.                                                                  *)
(***************************************************************************)
Alphabet == {"a", "b", " ", ",", "_", "/"}
Labels == BSeq(Alphabet, MaxLen)

NoName == <<"unset">>

InitName ==
    /\ pc = "name_in"
    /\ label \in Labels
    /\ result = NoName
    /\ result2 = NoName
    /\ mode = "none" /\ exit = "running" /\ reader = FALSE /\ total = 0
    /\ toc_entries = <<>> /\ i = 1 /\ folders = {} /\ files = <<>>
    /\ log = <<>> /\ stages = {} /\ outcome = <<>>
    /\ text = <<>> /\ scanned = 0

Normalize ==
    /\ pc = "name_in"
    /\ result' = parse_candidate_name(label)
    /\ pc' = "name_out"
    /\ UNCHANGED <<label, result2>>
    /\ UNCHANGED pipelineVars /\ UNCHANGED textVars

NormalizeAgain ==
    /\ pc = "name_out"
    /\ result # IndexError
    /\ result2' = parse_candidate_name(result)
    /\ pc' = "name_again"
    /\ UNCHANGED <<label, result>>
    /\ UNCHANGED pipelineVars /\ UNCHANGED textVars

NextName == Normalize \/ NormalizeAgain

SpecName == InitName /\ [][NextName]_vars

(***************************************************************************)
(* Properties of the normalizer                                            *)
(***************************************************************************)
HasComma(s) == "," \in Range(s)
BeforeFirst(s, c) == SubSeq(s, 1, FirstIndex(s, c) - 1)
AfterFirst(s, c) == SubSeq(s, FirstIndex(s, c) + 1, Len(s))
FirstToken(s) == LET t == LStrip(s) IN SubSeq(t, 1, TokenLen(t))
CommaCount(s) == Cardinality({k \in 1..Len(s) : s[k] = ","})

\* the label split on its first comma only
FirstCommaOnly(l) ==
    sanitize_filename(strip(BeforeFirst(l, ",")) \o <<"_">>
                      \o FirstToken(AfterFirst(l, ",")))

\* the text between the first comma and the second (or the end of the label)
SecondPart(l) ==
    LET r == AfterFirst(l, ",")
    IN  IF HasComma(r) THEN BeforeFirst(r, ",") ELSE r

\* C7 as stated: a label with a comma is split on its first comma only; the
\* firstname is the first token of everything right of the first comma and
\* the result is sanitize(lastname + "_" + firstname).
C7_FirstCommaOnly ==
    (pc # "name_in" /\ HasComma(label)) => result = FirstCommaOnly(label)

\* C7 amended: a label with a comma is split on every comma; the lastname is
\* the trimmed text left of the first comma, the firstname is the first token
\* of the text between the first and the second comma (or the end), and the
\* result is sanitize(lastname + "_" + firstname); when that text holds no
\* token parse_candidate_name raises IndexError and returns nothing.
C7_SplitsOnEveryComma ==
    (pc # "name_in" /\ HasComma(label)) =>
        result = IF FirstToken(SecondPart(label)) = <<>> THEN IndexError
                 ELSE sanitize_filename(strip(BeforeFirst(label, ","))
                          \o <<"_">> \o FirstToken(SecondPart(label)))

C7_Witness ==
    /\ pc = "name_out"
    /\ CommaCount(label) >= 2
    /\ result # IndexError
    /\ result # FirstCommaOnly(label)

NoSpace(s) == \A k \in 1..Len(s) : ~IsSpace(s[k])

\* Lastname_Firstname without comma, whitespace or forbidden character
Canonical(s) ==
    /\ ~HasComma(s)
    /\ NoSpace(s)
    /\ \A k \in 1..Len(s) : s[k] \notin Range(invalid_chars)
    /\ \E k \in 2..(Len(s) - 1) : s[k] = "_"

\* C8: a canonical Lastname_Firstname label is returned unchanged, and for a
\* label whose name has no whitespace inside normalizing the result again
\* gives the same result.
C8_Idempotent ==
    /\ (pc # "name_in" /\ Canonical(label)) => result = label
    /\ (pc = "name_again" /\ NoSpace(result)) => result2 = result

C8_Witness ==
    /\ pc = "name_again"
    /\ Canonical(label)
    /\ result2 = label


(***************************************************************************)
(* Text-pattern strategy.  The text of the document is given by the matches*)
(* re.findall finds in it: a sequence of [page, label, printed], ordered by*)
(* page and, within a page, by position in the text.                       *)
(***************************************************************************)
\* group 1 of a match: "Lastname, Firstname"
TextLabels == {<<"A", "b", ",", " ", "C", "d">>}

MatchItems(n) == [page : 0..(n - 1), label : TextLabels, printed : 0..MaxPrinted]

TextInputs(n) ==
    {d \in BSeq(MatchItems(n), MaxMatches) :
        \A k \in 1..(Len(d) - 1) : d[k].page <= d[k + 1].page}

\* re.findall(pattern, text) on the text of page p
findall(doc, p) == SelectSeq(doc, LAMBDA m : m.page = p)

\* toc_entries.append((name.strip(), int(page_num) - 1)) for each match
RECURSIVE AppendMatches(_)
AppendMatches(ms) ==
    IF ms = <<>> THEN <<>>
    ELSE <<[name |-> strip(Head(ms).label), page |-> Head(ms).printed - 1]>>
         \o AppendMatches(Tail(ms))

\* for page_idx in range(k): the entries of pages 0 .. k-1
RECURSIVE ScanPages(_, _)
ScanPages(doc, k) ==
    IF k = 0 THEN <<>>
    ELSE ScanPages(doc, k - 1) \o AppendMatches(findall(doc, k - 1))

\* pages the loop gets through when extract_text raises on page failAt
PagesScanned(n, failAt) == Min(failAt, Min(SearchWindow, n))

\* plausible slip: every page of the document is searched
extract_toc_from_text_allpages(doc, n, failAt) ==
    ScanPages(doc, Min(failAt, n))

\* failAt is the index of the page whose extract_text would raise (it is
\* never called for a page outside the search window, and n stands for no
\* such page); the entries found before it are returned
extract_toc_from_text(doc, n, failAt) ==
    ScanPages(doc, PagesScanned(n, failAt))

InitText ==
    /\ pc = "text_in"
    /\ total \in 0..TextMaxPages
    /\ text \in TextInputs(total)
    /\ scanned = 0
    /\ reader = TRUE
    /\ toc_entries = <<>>
    /\ mode = "none" /\ exit = "running"
    /\ i = 1 /\ folders = {} /\ files = <<>>
    /\ log = <<>> /\ stages = {} /\ outcome = <<>>
    /\ label = <<>> /\ result = NoName /\ result2 = NoName

ScanText ==
    /\ pc = "text_in"
    /\ \E failAt \in 0..total :
          /\ toc_entries' = extract_toc_from_text(text, total, failAt)
          /\ scanned' = PagesScanned(total, failAt)
    /\ pc' = "text_out"
    /\ UNCHANGED <<mode, exit, reader, total, i, folders, files, log, stages,
                   outcome, text>>
    /\ UNCHANGED nameVars

NextText == ScanText

SpecText == InitText /\ [][NextText]_vars

\* the boundary a match yields
Boundary(m) == [name |-> m.label, page |-> m.printed - 1]

\* C9: the text strategy scans only pages below min(5, total); the returned
\* list is, in page order and order of occurrence, the boundary
\* (label, n - 1) of every match on a scanned page, and a match on a page at
\* index 5 or later yields nothing.
C9_TextWindow ==
    pc = "text_out" =>
        /\ scanned <= Min(5, total)
        /\ LET seen == SelectSeq(text, LAMBDA m : m.page < scanned)
           IN  /\ Len(toc_entries) = Len(seen)
               /\ \A k \in 1..Len(seen) : toc_entries[k] = Boundary(seen[k])
        /\ Len(toc_entries) =
              Cardinality({k \in 1..Len(text) : text[k].page < scanned})

C9_Witness ==
    /\ pc = "text_out"
    /\ total > 5
    /\ scanned = 5
    /\ \E k \in 1..Len(text) : text[k].page >= 5
    /\ \E k \in 1..Len(text) : text[k].page < 5
    /\ Len(toc_entries) = 1

(***************************************************************************)
(* Pipeline: main and CandidatePDFSplitter.split_pdf                       *)
(***************************************************************************)
\* log keeps the ERROR records and the completion record of the run
Rec(level, msg) == [level |-> level, msg |-> msg]

\* titles of outline items
OutlineTitles ==
    {<<"a", ",", " ", "b">>, <<"b", " ", "a">>, <<"a", ",">>, <<"b">>}

\* an outline item in traversal order: its title and the index of its page,
\* or an item whose page cannot be resolved
OutlineItems(n) ==
    [title : OutlineTitles, page : 0..(n - 1), resolved : {TRUE}]
        \cup {[title |-> <<"b">>, page |-> 0, resolved |-> FALSE]}

OutlineInputs(n) == BSeq(OutlineItems(n), MaxOutline)

\* process_outline_item over the items: (title, page_num) of each item whose
\* page resolves; the others are skipped
RECURSIVE extract_toc_from_outlines(_)
extract_toc_from_outlines(ol) ==
    IF ol = <<>> THEN <<>>
    ELSE (IF Head(ol).resolved
          THEN <<[name |-> Head(ol).title, page |-> Head(ol).page]>>
          ELSE <<>>)
         \o extract_toc_from_outlines(Tail(ol))

\* list.sort(key=lambda x: x[1]) is stable
RECURSIVE InsertByPage(_, _)
InsertByPage(sorted, e) ==
    IF sorted = <<>> THEN <<e>>
    ELSE IF Head(sorted).page <= e.page
         THEN <<Head(sorted)>> \o InsertByPage(Tail(sorted), e)
         ELSE <<e>> \o sorted

RECURSIVE SortByPage(_)
SortByPage(s) ==
    IF s = <<>> THEN <<>>
    ELSE InsertByPage(SortByPage(SubSeq(s, 1, Len(s) - 1)), s[Len(s)])

\* plausible slip: the range runs up to the next start page itself
EndPage_next(toc, k, n) ==
    IF k + 1 <= Len(toc) THEN toc[k + 1].page ELSE n - 1

\* end_page of the k-th boundary
EndPage(toc, k, n) ==
    IF k + 1 <= Len(toc) THEN toc[k + 1].page - 1 ELSE n - 1

\* self.reader.pages[idx]: a negative index counts from the end
ResolveIndex(idx, n) == IF idx < 0 THEN idx + n ELSE idx

\* self.reader.pages[idx] raises IndexError
IndexRaises(idx, n) == ResolveIndex(idx, n) \notin 0..(n - 1)

\* the page loop raises on some page
CopyRaises(start_page, end_page, n) ==
    \E p \in start_page..end_page : p < n /\ IndexRaises(p, n)

\* the pages writer.add_page receives, in order
RECURSIVE CopyPages(_, _, _)
CopyPages(start_page, end_page, n) ==
    IF start_page > end_page THEN <<>>
    ELSE (IF start_page < n THEN <<ResolveIndex(start_page, n)>> ELSE <<>>)
         \o CopyPages(start_page + 1, end_page, n)

\* plausible slip: exclusive creation, an existing file is kept
WriteFile_exclusive(fs, name, rec) ==
    IF name \in DOMAIN fs THEN fs
    ELSE [x \in DOMAIN fs \cup {name} |-> IF x = name THEN rec ELSE fs[x]]

\* open(output_path, 'wb') and what reaches the file
WriteFile(fs, name, rec) ==
    [x \in DOMAIN fs \cup {name} |-> IF x = name THEN rec ELSE fs[x]]

\* plausible slip: break instead of continue
NextCandidate_break(k, len) == len + 1

\* except Exception: ... continue
NextCandidate(k, len) == k + 1

\* the step of the loop body an environment fault hits
Faults == {"none", "mkdir", "add_page", "open", "write"}

Init ==
    /\ pc = "main"
    /\ mode = "none"
    /\ exit = "running"
    /\ reader = FALSE
    /\ total = 0
    /\ toc_entries = <<>>
    /\ i = 1
    /\ folders = {}
    /\ files = <<>>
    /\ log = <<>>
    /\ stages = {}
    /\ outcome = <<>>
    /\ text = <<>> /\ scanned = 0
    /\ label = <<>> /\ result = NoName /\ result2 = NoName

\* the given file does not exist, or no R007*.pdf is found
MainNoInput ==
    /\ pc = "main"
    /\ log' = Append(log, Rec("ERROR", "input not found"))
    /\ exit' = "error"
    /\ pc' = "exit"
    /\ UNCHANGED <<mode, reader, total, toc_entries, i, folders, files,
                   stages, outcome>>
    /\ UNCHANGED textVars /\ UNCHANGED nameVars

MainSplit ==
    /\ pc = "main"
    /\ mode' = "split"
    /\ pc' = "load"
    /\ UNCHANGED <<exit, reader, total, toc_entries, i, folders, files, log,
                   stages, outcome>>
    /\ UNCHANGED textVars /\ UNCHANGED nameVars

MainAnalyze ==
    /\ pc = "main"
    /\ mode' = "analyze"
    /\ pc' = "analyze"
    /\ UNCHANGED <<exit, reader, total, toc_entries, i, folders, files, log,
                   stages, outcome>>
    /\ UNCHANGED textVars /\ UNCHANGED nameVars

\* analyze_pdf_structure: load_pdf fails
AnalyzeLoadFail ==
    /\ pc = "analyze"
    /\ log' = Append(log, Rec("ERROR", "Error loading PDF"))
    /\ stages' = stages \cup {"load"}
    /\ exit' = "ok"
    /\ pc' = "exit"
    /\ UNCHANGED <<mode, reader, total, toc_entries, i, folders, files,
                   outcome>>
    /\ UNCHANGED textVars /\ UNCHANGED nameVars

\* analyze_pdf_structure on a loaded document; pages[0] of a document
\* without pages raises and nothing catches it
Analyze ==
    /\ pc = "analyze"
    /\ \E n \in 0..MaxPages :
          /\ reader' = TRUE
          /\ total' = n
          /\ pc' = "exit"
          /\ exit' = IF n = 0 THEN "error" ELSE "ok"
    /\ stages' = stages \cup {"load"}
    /\ UNCHANGED <<mode, toc_entries, i, folders, files, log, outcome>>
    /\ UNCHANGED textVars /\ UNCHANGED nameVars

\* plausible slip: the result of load_pdf is ignored
LoadPdfFail_continue ==
    /\ pc = "load"
    /\ log' = Append(log, Rec("ERROR", "Error loading PDF"))
    /\ stages' = stages \cup {"load"}
    /\ pc' = "outlines"
    /\ UNCHANGED <<mode, exit, reader, total, toc_entries, i, folders, files,
                   outcome>>
    /\ UNCHANGED textVars /\ UNCHANGED nameVars

\* load_pdf returns False, split_pdf returns and main ends
LoadPdfFail ==
    /\ pc = "load"
    /\ log' = Append(log, Rec("ERROR", "Error loading PDF"))
    /\ stages' = stages \cup {"load"}
    /\ exit' = "ok"
    /\ pc' = "exit"
    /\ UNCHANGED <<mode, reader, total, toc_entries, i, folders, files,
                   outcome>>
    /\ UNCHANGED textVars /\ UNCHANGED nameVars

LoadPdf ==
    /\ pc = "load"
    /\ \E n \in 0..MaxPages :
          /\ reader' = TRUE
          /\ total' = n
    /\ stages' = stages \cup {"load"}
    /\ pc' = "outlines"
    /\ UNCHANGED <<mode, exit, toc_entries, i, folders, files, log, outcome>>
    /\ UNCHANGED textVars /\ UNCHANGED nameVars

\* toc_entries = self.extract_toc_from_outlines()
ExtractOutlines ==
    /\ pc = "outlines"
    /\ \E ol \in OutlineInputs(total) :
          toc_entries' = extract_toc_from_outlines(ol)
    /\ stages' = stages \cup {"outlines"}
    /\ pc' = "fallback"
    /\ UNCHANGED <<mode, exit, reader, total, i, folders, files, log,
                   outcome>>
    /\ UNCHANGED textVars /\ UNCHANGED nameVars

\* reading the outline raises: the error is logged and the entries found so
\* far, none, are returned
ExtractOutlinesError ==
    /\ pc = "outlines"
    /\ toc_entries' = <<>>
    /\ log' = Append(log, Rec("ERROR", "Error extracting TOC from outlines"))
    /\ stages' = stages \cup {"outlines"}
    /\ pc' = "fallback"
    /\ UNCHANGED <<mode, exit, reader, total, i, folders, files, outcome>>
    /\ UNCHANGED textVars /\ UNCHANGED nameVars

\* if not toc_entries: toc_entries = self.extract_toc_from_text()
TextFallback ==
    /\ pc = "fallback"
    /\ toc_entries = <<>>
    /\ \E doc \in TextInputs(total), failAt \in 0..total :
          /\ toc_entries' = extract_toc_from_text(doc, total, failAt)
          /\ log' = IF failAt < Min(SearchWindow, total)
                    THEN Append(log, Rec("ERROR", "Error extracting TOC from text"))
                    ELSE log
    /\ stages' = stages \cup {"text"}
    /\ pc' = "check"
    /\ UNCHANGED <<mode, exit, reader, total, i, folders, files, outcome>>
    /\ UNCHANGED textVars /\ UNCHANGED nameVars

\* plausible slip: the text strategy also runs after the outline strategy
\* found entries, and its entries are added
SkipText_merge ==
    /\ pc = "fallback"
    /\ toc_entries # <<>>
    /\ \E doc \in TextInputs(total) :
          toc_entries' = toc_entries \o extract_toc_from_text(doc, total, total)
    /\ stages' = stages \cup {"text"}
    /\ pc' = "check"
    /\ UNCHANGED <<mode, exit, reader, total, i, folders, files, log,
                   outcome>>
    /\ UNCHANGED textVars /\ UNCHANGED nameVars

\* the outline strategy found entries: the text strategy is not run
SkipText ==
    /\ pc = "fallback"
    /\ toc_entries # <<>>
    /\ pc' = "check"
    /\ UNCHANGED <<mode, exit, reader, total, toc_entries, i, folders, files,
                   log, stages, outcome>>
    /\ UNCHANGED textVars /\ UNCHANGED nameVars

\* plausible slip: no return, the run falls through to the loop
NoToc_fallthrough ==
    /\ pc = "check"
    /\ toc_entries = <<>>
    /\ i' = 1
    /\ stages' = stages \cup {"segment"}
    /\ pc' = "loop"
    /\ UNCHANGED <<mode, exit, reader, total, toc_entries, folders, files,
                   log, outcome>>
    /\ UNCHANGED textVars /\ UNCHANGED nameVars

\* if not toc_entries: logger.error(...); return, and main ends
NoToc ==
    /\ pc = "check"
    /\ toc_entries = <<>>
    /\ log' = Append(log, Rec("ERROR", "Could not extract table of contents"))
    /\ exit' = "ok"
    /\ pc' = "exit"
    /\ UNCHANGED <<mode, reader, total, toc_entries, i, folders, files,
                   stages, outcome>>
    /\ UNCHANGED textVars /\ UNCHANGED nameVars

\* toc_entries.sort(key=lambda x: x[1]) and the loop is entered
SortToc ==
    /\ pc = "check"
    /\ toc_entries # <<>>
    /\ toc_entries' = SortByPage(toc_entries)
    /\ i' = 1
    /\ stages' = stages \cup {"segment"}
    /\ pc' = "loop"
    /\ UNCHANGED <<mode, exit, reader, total, folders, files, log, outcome>>
    /\ UNCHANGED textVars /\ UNCHANGED nameVars

\* one iteration of the loop over the candidates: the body of the try and,
\* when a step raises, the except clause; ended names the step that raised
ProcessCandidate ==
    /\ pc = "loop"
    /\ i <= Len(toc_entries)
    /\ \E fault \in Faults :
       \E formatted_name \in {parse_candidate_name(toc_entries[i].name)} :
       \E end_page \in {EndPage(toc_entries, i, total)} :
       \E ended \in {IF formatted_name = IndexError THEN "name"
                     ELSE IF fault = "mkdir" THEN "mkdir"
                     ELSE IF CopyRaises(toc_entries[i].page, end_page, total)
                             \/ fault = "add_page" THEN "add_page"
                     ELSE IF fault = "open" THEN "open"
                     ELSE IF fault = "write" THEN "write"
                     ELSE "ok"} :
          LET start_page == toc_entries[i].page
          IN  /\ folders' = IF ended \in {"name", "mkdir"} THEN folders
                            ELSE folders \cup {formatted_name}
              /\ files' =
                    IF ended = "write"
                    THEN WriteFile(files, formatted_name,
                                   [by |-> i, pages |-> <<>>, complete |-> FALSE])
                    ELSE IF ended = "ok"
                    THEN WriteFile(files, formatted_name,
                                   [by |-> i,
                                    pages |-> CopyPages(start_page, end_page, total),
                                    complete |-> TRUE])
                    ELSE files
              /\ outcome' = Append(outcome, ended)
              /\ log' = IF ended = "ok" THEN log
                        ELSE Append(log, Rec("ERROR", "Error processing candidate"))
              /\ i' = IF ended = "ok" THEN i + 1
                      ELSE NextCandidate(i, Len(toc_entries))
    /\ UNCHANGED <<pc, mode, exit, reader, total, toc_entries, stages>>
    /\ UNCHANGED textVars /\ UNCHANGED nameVars

\* logger.info("PDF splitting completed!"); split_pdf returns and main ends
Finish ==
    /\ pc = "loop"
    /\ i > Len(toc_entries)
    /\ log' = Append(log, Rec("INFO", "PDF splitting completed!"))
    /\ exit' = "ok"
    /\ pc' = "exit"
    /\ UNCHANGED <<mode, reader, total, toc_entries, i, folders, files,
                   stages, outcome>>
    /\ UNCHANGED textVars /\ UNCHANGED nameVars

Next ==
    \/ MainNoInput \/ MainSplit \/ MainAnalyze
    \/ AnalyzeLoadFail \/ Analyze
    \/ LoadPdfFail \/ LoadPdf
    \/ ExtractOutlines \/ ExtractOutlinesError
    \/ TextFallback \/ SkipText
    \/ NoToc \/ SortToc
    \/ ProcessCandidate \/ Finish

Spec == Init /\ [][Next]_vars

(***************************************************************************)
(* Properties of the pipeline                                              *)
(***************************************************************************)
\* the loop over the sorted boundaries has been entered
Segmenting == "segment" \in stages
Returned == pc = "exit" /\ mode = "split"

Logged(level, msg) == \E k \in 1..Len(log) : log[k] = Rec(level, msg)

Name(k) == parse_candidate_name(toc_entries[k].name)

StrictlyIncreasing ==
    \A k \in 1..(Len(toc_entries) - 1) :
        toc_entries[k].page < toc_entries[k + 1].page

\* the boundaries whose range [start_page, end_page] holds page index p
Owners(p) ==
    {k \in 1..Len(toc_entries) :
        /\ toc_entries[k].page <= p
        /\ p <= EndPage(toc_entries, k, total)}

\* C1 as stated: with strictly increasing start pages every page index in
\* 0 .. total-1 lies in exactly one candidate's range.
C1_PartitionsDocument ==
    (Segmenting /\ StrictlyIncreasing) =>
        \A p \in 0..(total - 1) : Cardinality(Owners(p)) = 1

\* C1 amended: with strictly increasing start pages every page index from
\* the first start page to total-1 lies in exactly one candidate's range and
\* every page index below the first start page lies in none; the ranges
\* cover 0 .. total-1 only when the first start page is 0 (or -1).
C1_PartitionsFromFirstStart ==
    (Segmenting /\ StrictlyIncreasing) =>
        \A p \in (-1)..(total - 1) :
            Cardinality(Owners(p)) = IF p >= toc_entries[1].page THEN 1 ELSE 0

C1_Witness ==
    /\ pc = "loop"
    /\ i > Len(toc_entries)
    /\ Len(toc_entries) >= 2
    /\ StrictlyIncreasing
    /\ toc_entries[1].page > 0
    /\ toc_entries[Len(toc_entries)].page < total

\* end page of the k-th boundary as the segmenter's contract gives it
ContractEnd(k) ==
    IF k < Len(toc_entries) THEN toc_entries[k + 1].page - 1 ELSE total - 1

\* valid page indexes of the k-th boundary's range
ContractPages(k) ==
    {p \in 0..(total - 1) : toc_entries[k].page <= p /\ p <= ContractEnd(k)}

\* C2: the document written for a boundary holds, in ascending order,
\* exactly the valid page indexes of its range [start, end], and no page
\* outside that range.
C2_CopiesExactlyItsRange ==
    Segmenting =>
        \A nm \in DOMAIN files :
            files[nm].complete =>
                LET pages == files[nm].pages
                    own == ContractPages(files[nm].by)
                IN  /\ Len(pages) = Cardinality(own)
                    /\ \A k \in 1..Len(pages) : pages[k] \in own
                    /\ \A k \in 1..(Len(pages) - 1) : pages[k] < pages[k + 1]

\* C3: a candidate whose processing fails leaves behind only what the steps
\* before the failure created, the loop goes on to the next candidate, every
\* candidate is processed, each one that did not fail is written, and the
\* run reaches its completion record.
C3_Continues ==
    /\ [][(pc = "loop" /\ i <= Len(toc_entries)) =>
            /\ pc' = "loop"
            /\ i' = i + 1
            /\ Len(outcome') = i
            /\ outcome'[i] \in {"name", "mkdir"} =>
                  folders' = folders /\ files' = files
            /\ outcome'[i] \in {"add_page", "open"} =>
                  folders' = folders \cup {Name(i)} /\ files' = files
            /\ outcome'[i] = "write" =>
                  /\ folders' = folders \cup {Name(i)}
                  /\ DOMAIN files' = DOMAIN files \cup {Name(i)}
                  /\ ~files'[Name(i)].complete
                  /\ \A x \in DOMAIN files \ {Name(i)} : files'[x] = files[x]
         ]_vars
    /\ [](Returned /\ Segmenting =>
            /\ Len(outcome) = Len(toc_entries)
            /\ Logged("INFO", "PDF splitting completed!")
            /\ exit # "error"
            /\ \A k \in 1..Len(toc_entries) :
                  outcome[k] = "ok" =>
                      /\ Name(k) \in folders
                      /\ Name(k) \in DOMAIN files
                      /\ files[Name(k)].by >= k)

C3_Witness ==
    /\ pc = "exit"
    /\ Len(outcome) >= 2
    /\ outcome[1] = "write"
    /\ outcome[2] = "ok"
    /\ Name(1) # Name(2)
    /\ files[Name(2)].complete
    /\ ~files[Name(1)].complete

\* C4: the text strategy runs only when the outline strategy returned no
\* entry; when the outline strategy returned entries they are the boundary
\* list, unchanged, and the text strategy does not run.
C4_OutlineFirst ==
    [][/\ (pc = "fallback" /\ toc_entries # <<>>) =>
            /\ toc_entries' = toc_entries
            /\ "text" \notin stages'
            /\ pc' = "check"
       /\ ("text" \in stages' /\ "text" \notin stages) =>
            /\ pc = "fallback"
            /\ "outlines" \in stages
            /\ toc_entries = <<>>
      ]_vars

C4_Witness ==
    /\ pc = "check"
    /\ "outlines" \in stages
    /\ "text" \notin stages
    /\ Len(toc_entries) >= 2

\* C5: when neither strategy yields an entry split_pdf logs an error,
\* creates no candidate folder and no candidate PDF, and returns; the
\* process ends with status 0.
C5_NoBoundaries ==
    (Returned /\ reader /\ toc_entries = <<>>) =>
        /\ Logged("ERROR", "Could not extract table of contents")
        /\ {"outlines", "text"} \subseteq stages
        /\ ~Segmenting
        /\ folders = {}
        /\ DOMAIN files = {}
        /\ outcome = <<>>
        /\ exit = "ok"

C5_Witness ==
    /\ pc = "exit"
    /\ mode = "split"
    /\ reader
    /\ total > 0
    /\ toc_entries = <<>>
    /\ "text" \in stages

\* C6: when loading fails load_pdf reports it and split_pdf returns at
\* once: no extraction, no segmentation, no folder and no PDF.
C6_LoadFailureAborts ==
    (mode = "split" /\ "load" \in stages /\ ~reader) =>
        /\ Returned
        /\ stages = {"load"}
        /\ Logged("ERROR", "Error loading PDF")
        /\ toc_entries = <<>>
        /\ folders = {}
        /\ DOMAIN files = {}
        /\ outcome = <<>>

C6_Witness ==
    /\ pc = "exit"
    /\ mode = "split"
    /\ ~reader
    /\ "load" \in stages

Last(S) == CHOOSE k \in S : \A j \in S : j <= k

\* boundaries with canonical name nm whose PDF was written
WrittenAs(nm) ==
    {k \in 1..Len(toc_entries) : outcome[k] = "ok" /\ Name(k) = nm}

\* boundaries with canonical name nm that opened the PDF for writing
OpenedAs(nm) ==
    {k \in 1..Len(toc_entries) :
        outcome[k] \in {"ok", "write"} /\ Name(k) = nm}

PageRange(k) ==
    CopyPages(toc_entries[k].page, EndPage(toc_entries, k, total), total)

\* C10 as stated: after the run the file of a name holds the page range of
\* the last successfully written boundary with that name, and the number of
\* PDFs equals the number of distinct names written.
C10_LastWrittenWins ==
    (Returned /\ Segmenting) =>
        /\ \A nm \in DOMAIN files :
              /\ WrittenAs(nm) # {}
              /\ files[nm].complete
              /\ files[nm].pages = PageRange(Last(WrittenAs(nm)))
        /\ Cardinality(DOMAIN files) =
              Cardinality({Name(k) : k \in {j \in 1..Len(toc_entries) :
                                                outcome[j] = "ok"}})

\* C10 amended: after the run the file of a name holds the output of the
\* last boundary with that name that opened it for writing: its page range
\* when its write succeeded, a truncated file when its write failed; the
\* PDFs on disk are those of the distinct names opened for writing.
C10_LastOpenerWins ==
    (Returned /\ Segmenting) =>
        /\ \A nm \in DOMAIN files :
              /\ OpenedAs(nm) # {}
              /\ LET k == Last(OpenedAs(nm))
                 IN  IF outcome[k] = "ok"
                     THEN files[nm].complete /\ files[nm].pages = PageRange(k)
                     ELSE ~files[nm].complete
        /\ DOMAIN files =
              {Name(k) : k \in {j \in 1..Len(toc_entries) :
                                   outcome[j] \in {"ok", "write"}}}
        /\ Cardinality(DOMAIN files) <= Len(toc_entries)

C10_Witness ==
    /\ pc = "exit"
    /\ Len(toc_entries) = 2
    /\ outcome = <<"ok", "ok">>
    /\ Name(1) = Name(2)
    /\ PageRange(1) # PageRange(2)
    /\ Cardinality(DOMAIN files) = 1
    /\ files[Name(1)].pages = PageRange(2)
====
